---------------------------- MODULE Spec2Model ----------------------------
(***************************************************************************)
(* A model of Epycor (src/Epycor/client.py): the ERP session object, the   *)
(* resolver chain ERP.Schema.Namespace.Service.Method and the request the  *)
(* method invoker builds.  Python strings are TLA+ strings (TLC evaluates  *)
(* Len, \o and SubSeq on them); str.lower()/str.upper() are computed       *)
(* character by character.  The HTTP server is the environment: each       *)
(* request that is sent gets a response chosen nondeterministically.       *)
(***************************************************************************)
EXTENDS Naturals, Sequences, FiniteSets, TLC

VARIABLES erp,    \* the ERP object's attributes (client.py:75-88)
          last    \* observation of the last operation: its name, arguments,
                  \* the exception it raised, the HTTP requests it sent and
                  \* the number of Close() calls it made

vars == <<erp, last>>

---------------------------------------------------------------------------
(* Bounds of the model *)

\* number of distinct session tokens the server may hand out
NumTokens == 2

---------------------------------------------------------------------------
(* Python values *)

\* Python's None; a reserved value that is not among the input strings
None == "<None>"

\* truth value of an Optional[str]: None and "" are falsy
Truthy(v) == v # None /\ v # ""

UpperAlpha == "ABCDEFGHIJKLMNOPQRSTUVWXYZ"
LowerAlpha == "abcdefghijklmnopqrstuvwxyz"

Ch(s, i) == SubSeq(s, i, i)

\* the lower-case letter of each upper-case letter, and the converse
ToLower ==
    [c \in { Ch(UpperAlpha, i) : i \in 1..Len(UpperAlpha) } |->
        Ch(LowerAlpha, CHOOSE i \in 1..Len(UpperAlpha) : Ch(UpperAlpha, i) = c)]
ToUpper ==
    [c \in { Ch(LowerAlpha, i) : i \in 1..Len(LowerAlpha) } |->
        Ch(UpperAlpha, CHOOSE i \in 1..Len(LowerAlpha) : Ch(LowerAlpha, i) = c)]

LowerChar(c) == IF c \in DOMAIN ToLower THEN ToLower[c] ELSE c

UpperChar(c) == IF c \in DOMAIN ToUpper THEN ToUpper[c] ELSE c

\* str.lower() on ASCII strings
RECURSIVE lower(_)
lower(s) == IF s = "" THEN "" ELSE LowerChar(Ch(s, 1)) \o lower(SubSeq(s, 2, Len(s)))

\* str.upper() on ASCII strings
RECURSIVE upper(_)
upper(s) == IF s = "" THEN "" ELSE UpperChar(Ch(s, 1)) \o upper(SubSeq(s, 2, Len(s)))

\* str.startswith(prefix)
startswith(s, prefix) ==
    Len(s) >= Len(prefix) /\ SubSeq(s, 1, Len(prefix)) = prefix

\* JSON / keyword-argument values: a string, a dict, or nothing
JStr(s)  == [t |-> "str", s |-> s]
JObj(m)  == [t |-> "obj", m |-> m]
JNone    == [t |-> "none"]

\* a dict is a set of <<key, value>> pairs with distinct keys
HasKey(d, k) == \E p \in d : p[1] = k
Get(d, k)    == (CHOOSE p \in d : p[1] = k)[2]

\* exceptions
NoExc            == [type |-> "none", msg |-> ""]
ValueError(m)    == [type |-> "ValueError", msg |-> m]
Exception(m)     == [type |-> "Exception", msg |-> m]
HTTPError        == [type |-> "HTTPError", msg |-> ""]

---------------------------------------------------------------------------
(* licenses.py *)

Default    == "00000003-B615-4300-957B-34956697F040"
WebService == "00000003-9439-4B30-A6F4-6D2FD4B9FD0F"

valid_licenses ==
    { Default,
      "00000003-C997-4D03-868E-31E510BDD87B",
      "00000003-079B-4C49-9D0A-EF8236247504",
      "00000003-BDB7-43A3-949C-1F003E3ABCFA",
      "00000003-9F85-4C75-9A9D-B9198371275B",
      "00000003-C084-43C0-978D-9790A7A3C902",
      WebService,
      "00000003-231B-4E2B-9B47-13F87EA9A0A3",
      "00000003-15F2-4059-8C79-11849198F488",
      "00000003-3278-47FF-BD7A-9E1BAE66B088",
      "00000003-B8EB-40C4-8897-248CB30C5D47",
      "00000003-4344-4D20-8650-75C0E7EB64D7",
      "00000003-EA5C-43E4-A1C6-26F7C7DBA2BE",
      "00000003-F415-4768-82EA-0AF7327B1AC4" }

---------------------------------------------------------------------------
(* ERP: derived read-only values *)

\* ERP.BaseURL
BaseURL(e) ==
    e.EpicorServer \o "/" \o e.ERPInstance \o "/api/v2/odata/" \o e.CurrentCompany

\* ERP.EfxURL
EfxURL(e) ==
    e.EpicorServer \o "/" \o e.ERPInstance \o "/api/v2/efx/" \o e.CurrentCompany

\* json.dumps of the license descriptor (a dict of one or two string members)
LicenseJson(e) ==
    "{\"ClaimedLicense\": \"" \o e.LicenseType \o "\""
    \o (IF Truthy(e.SessionID)
        THEN ", \"SessionID\": \"" \o e.SessionID \o "\""
        ELSE "")
    \o "}"

\* ERP.RequestHeaders: a dict of header name -> value
RequestHeaders(e) ==
    { <<"x-api-key", e.APIKey>> }
    \cup (IF e.ClaimLicense THEN { <<"License", LicenseJson(e)>> } ELSE {})

---------------------------------------------------------------------------
(* The resolver chain: EpiSchema, EpiNamespace, EpiService *)

\* EpiSchema.schema setter: the exception it raises, NoExc when it accepts
EpiSchema(schema) ==
    IF upper(schema) \notin {"ERP", "ICE"}
    THEN ValueError("Unknown Epicor schema: " \o schema)
    ELSE NoExc

\* namespaces the EpiNamespace.namespace setter accepts
AcceptedNamespaces == {"BO", "LIB", "PROC", "RPT", "EFX", "BAQ"}

\* EpiNamespace.namespace setter: the exception it raises, NoExc when it accepts
EpiNamespace(namespace) ==
    IF upper(namespace) \notin AcceptedNamespaces
    THEN ValueError("Unknown Epicor namespace: " \o namespace)
    ELSE NoExc

\* EpiNamespace.__str__: "{schema}.{namespace}"
NamespaceStr(schema, namespace) == schema \o "." \o namespace

\* variant of ServiceStr: the schema left out of the service path
ServiceStr_NoSchema(schema, namespace, svc) == namespace \o "." \o svc

\* EpiService.__str__: "{namespace}.{svc}", namespace being the EpiNamespace object
ServiceStr(schema, namespace, svc) == NamespaceStr(schema, namespace) \o "." \o svc

---------------------------------------------------------------------------
(* The method invoker: EpiMethod / EpiMethodCall *)

\* method names whose POST form is deprecated in favour of GET
ReadStyleMethods ==
    {"getbyid", "getlist", "getrows", "getbysysrowid", "getbysysrowids"}

\* whether the upper-cased namespace is the BAQ one
IsBaqNamespace(our_ns) == our_ns = "BAQ" \/ our_ns = "BAQSVC"

\* req_url, chosen by namespace
ReqURL(e, schema, namespace, svc, method) ==
    LET our_ns == upper(namespace) IN
    IF our_ns = "EFX"
    THEN EfxURL(e) \o "/" \o svc \o "/" \o method
    ELSE IF IsBaqNamespace(our_ns)
    THEN BaseURL(e) \o "/BaqSvc/" \o svc \o "/" \o method
    ELSE BaseURL(e) \o "/" \o ServiceStr(schema, namespace, svc) \o "/" \o method

\* variant of IsReadStyle: the name compared without lower-casing it
IsReadStyle_CaseSensitive(method) == method \in ReadStyleMethods

\* whether the method name is one of the read-style names
IsReadStyle(method) == lower(method) \in ReadStyleMethods

\* the verb and the payload placement: [verb, params, json]
VerbAndPayload(namespace, method, kwargs) ==
    LET our_ns == upper(namespace) IN
    IF IsReadStyle(method)
    THEN [verb |-> "GET", params |-> JObj(kwargs), json |-> JNone]
    ELSE IF IsBaqNamespace(our_ns)
    THEN IF lower(method) = "data" /\ HasKey(kwargs, "ds")
         THEN [verb |-> "PATCH", params |-> JNone, json |-> Get(kwargs, "ds")]
         ELSE [verb |-> "GET", params |-> JObj(kwargs), json |-> JNone]
    ELSE [verb |-> "POST", params |-> JNone, json |-> JObj(kwargs)]

\* variant of CredentialCheck: the company left unchecked
CredentialCheck_NoCompany(e) ==
    IF ~Truthy(e.username) \/ ~Truthy(e.password)
    THEN Exception("ERP instance has no username or password!")
    ELSE NoExc

\* the check made before sending: the exception raised, NoExc when it passes
CredentialCheck(e) ==
    IF ~Truthy(e.username) \/ ~Truthy(e.password)
    THEN Exception("ERP instance has no username or password!")
    ELSE IF ~Truthy(e.CurrentCompany)
    THEN Exception("ERP instance has no company set!")
    ELSE NoExc

\* EpiMethodCall(**kwargs) of EpiMethod(instance, service, method):
\* the exception raised and the requests handed to the HTTP library
EpiMethodCall(e, schema, namespace, svc, method, kwargs) ==
    LET chk == CredentialCheck(e)
        vp  == VerbAndPayload(namespace, method, kwargs)
    IN  IF chk # NoExc
        THEN [exc |-> chk, reqs |-> <<>>]
        ELSE [exc  |-> NoExc,
              reqs |-> << [verb    |-> vp.verb,
                           url     |-> ReqURL(e, schema, namespace, svc, method),
                           params  |-> vp.params,
                           json    |-> vp.json,
                           headers |-> RequestHeaders(e),
                           auth    |-> <<e.username, e.password>>] >>]

\* erp.<schema>.<namespace>.<svc>.<method>(**kwargs): the resolver chain is
\* built segment by segment, then the method is called
Invoke(e, schema, namespace, svc, method, kwargs) ==
    IF EpiSchema(schema) # NoExc
    THEN [exc |-> EpiSchema(schema), reqs |-> <<>>]
    ELSE IF EpiNamespace(namespace) # NoExc
    THEN [exc |-> EpiNamespace(namespace), reqs |-> <<>>]
    ELSE EpiMethodCall(e, schema, namespace, svc, method, kwargs)

---------------------------------------------------------------------------
(* The HTTP server's responses *)

Digit(i) == Ch("0123456789", i + 1)

\* session tokens the server hands out (non-empty GUID-like strings)
Tokens == { "tok" \o Digit(i) : i \in 1..NumTokens }

\* Response.raise_for_status() raises for a 4xx/5xx status
RaisesForStatus(resp) == resp.status >= 400

\* responses to the session-creation call: a success carries returnObj
LoginResponses ==
    { [status |-> 200, returnObj |-> t] : t \in Tokens }
    \cup { [status |-> 401, returnObj |-> None] }

\* responses to the session-termination call
LogoutResponses ==
    { [status |-> 200, returnObj |-> None], [status |-> 500, returnObj |-> None] }

---------------------------------------------------------------------------
(* ERP: Login, Logout, Close and the property setters.  Each returns the   *)
(* session afterwards, the exception that propagated, the requests sent    *)
(* and the number of Close() calls made.                                   *)

\* variant of Logout: the token cleared before the status is checked
Logout_ClearsFirst(e, resp) ==
    LET call == EpiMethodCall(e, "Ice", "Lib", "SessionModSvc", "Logout", {}) IN
    IF call.exc # NoExc
    THEN [erp |-> e, exc |-> call.exc, reqs |-> call.reqs, closes |-> 0]
    ELSE [erp |-> [e EXCEPT !.SessionID = None],
          exc |-> IF RaisesForStatus(resp) THEN HTTPError ELSE NoExc,
          reqs |-> call.reqs, closes |-> 0]

\* ERP.Logout
Logout(e, resp) ==
    LET call == EpiMethodCall(e, "Ice", "Lib", "SessionModSvc", "Logout", {}) IN
    IF call.exc # NoExc
    THEN [erp |-> e, exc |-> call.exc, reqs |-> call.reqs, closes |-> 0]
    ELSE IF RaisesForStatus(resp)
    THEN [erp |-> e, exc |-> HTTPError, reqs |-> call.reqs, closes |-> 0]
    ELSE [erp |-> [e EXCEPT !.SessionID = None],
          exc |-> NoExc, reqs |-> call.reqs, closes |-> 0]

\* variant of Close: Logout called whether or not a token is held
Close_AlwaysLogsOut(e, resp) ==
    LET lo == Logout(e, resp) IN
    IF lo.exc # NoExc
    THEN [lo EXCEPT !.closes = 1]
    ELSE [lo EXCEPT !.erp = [lo.erp EXCEPT !.is_open = FALSE], !.closes = 1]

\* ERP.Close
Close(e, resp) ==
    IF Truthy(e.SessionID)
    THEN LET lo == Logout(e, resp) IN
         IF lo.exc # NoExc
         THEN [lo EXCEPT !.closes = 1]
         ELSE [lo EXCEPT !.erp = [lo.erp EXCEPT !.is_open = FALSE], !.closes = 1]
    ELSE [erp |-> [e EXCEPT !.is_open = FALSE],
          exc |-> NoExc, reqs |-> <<>>, closes |-> 1]

\* variant of Login: the session marked open without storing the token
Login_DropsToken(e, username, password, resp) ==
    LET e1   == [e EXCEPT !.username = username, !.password = password]
        call == EpiMethodCall(e1, "Ice", "Lib", "SessionModSvc", "Login", {})
    IN  IF call.exc # NoExc
        THEN [erp |-> e1, exc |-> call.exc, reqs |-> call.reqs, closes |-> 0]
        ELSE IF RaisesForStatus(resp)
        THEN [erp |-> e1, exc |-> HTTPError, reqs |-> call.reqs, closes |-> 0]
        ELSE [erp |-> [e1 EXCEPT !.is_open = TRUE],
              exc |-> NoExc, reqs |-> call.reqs, closes |-> 0]

\* ERP.Login
Login(e, username, password, resp) ==
    LET e1   == [e EXCEPT !.username = username, !.password = password]
        call == EpiMethodCall(e1, "Ice", "Lib", "SessionModSvc", "Login", {})
    IN  IF call.exc # NoExc
        THEN [erp |-> e1, exc |-> call.exc, reqs |-> call.reqs, closes |-> 0]
        ELSE IF RaisesForStatus(resp)
        THEN [erp |-> e1, exc |-> HTTPError, reqs |-> call.reqs, closes |-> 0]
        ELSE [erp |-> [e1 EXCEPT !.SessionID = resp.returnObj, !.is_open = TRUE],
              exc |-> NoExc, reqs |-> call.reqs, closes |-> 0]

\* the scheme test of the EpicorServer setter
IsSecure(url) == startswith(lower(url), "https://")

\* ERP.EpicorServer setter (the backquotes around the value in the message are
\* left out)
SetEpicorServer(e, new_value, resp) ==
    IF ~IsSecure(new_value)
    THEN [erp |-> e, reqs |-> <<>>, closes |-> 0,
          exc |-> ValueError("EpicorServer URL must start with 'https://'. Got "
                             \o new_value)]
    ELSE LET cl == IF e.is_open THEN Close(e, resp)
                   ELSE [erp |-> e, exc |-> NoExc, reqs |-> <<>>, closes |-> 0]
         IN  IF cl.exc # NoExc
             THEN cl
             ELSE [cl EXCEPT !.erp = [cl.erp EXCEPT !.EpicorServer = new_value]]

\* variant of SetERPInstance: the new value stored before the session is closed
SetERPInstance_StoreFirst(e, new_value, resp) ==
    LET e1 == [e EXCEPT !.ERPInstance = new_value] IN
    IF e1.is_open THEN Close(e1, resp)
    ELSE [erp |-> e1, exc |-> NoExc, reqs |-> <<>>, closes |-> 0]

\* ERP.ERPInstance setter
SetERPInstance(e, new_value, resp) ==
    LET cl == IF e.is_open THEN Close(e, resp)
              ELSE [erp |-> e, exc |-> NoExc, reqs |-> <<>>, closes |-> 0]
    IN  IF cl.exc # NoExc
        THEN cl
        ELSE [cl EXCEPT !.erp = [cl.erp EXCEPT !.ERPInstance = new_value]]

\* ERP.LicenseType setter
SetLicenseType(e, new_value) ==
    IF new_value \notin valid_licenses
    THEN [erp |-> e, reqs |-> <<>>, closes |-> 0,
          exc |-> ValueError("Given unknown/invalid license type: " \o new_value)]
    ELSE [erp |-> [e EXCEPT !.LicenseType = new_value],
          exc |-> NoExc, reqs |-> <<>>, closes |-> 0]

\* ERP.__init__: the object constructed (the license type is checked by the caller
\* of this operator: an invalid one raises and no object exists)
ERPInit(EpicorServer, ERPInstance, APIKey, Company, ClaimLicense, LicenseType) ==
    [EpicorServer   |-> EpicorServer,
     ERPInstance    |-> ERPInstance,
     APIKey         |-> APIKey,
     CurrentCompany |-> Company,
     ClaimLicense   |-> ClaimLicense,
     LicenseType    |-> LicenseType,
     is_open        |-> FALSE,
     SessionID      |-> None,
     username       |-> None,
     password       |-> None]

---------------------------------------------------------------------------
(* Inputs the callers draw from *)

\* constructor arguments
ServerInputs   == {"https://a.co", "http://a.co"}
InstanceInputs == {"E10Live"}
APIKeyInputs   == {"key"}
CompanyInputs  == {"1", ""}

\* values assigned to ERP.EpicorServer, ERP.ERPInstance and ERP.LicenseType
NewServerInputs   == {"HTTPS://b.co", "http://b.co", "b.co"}
NewInstanceInputs == {"E10Demo", "E10Live"}
NewLicenseInputs  == {WebService, "not-a-license"}

\* Login arguments
UserInputs     == {"u", ""}
PasswordInputs == {"p", ""}

\* keyword-argument bags
KwVendor == { <<"vendorID", JStr("DIGCO")>> }
KwDs     == { <<"ds", JObj({ <<"JobHead_StartDate", JStr("07/01/2024")>> })>>,
              <<"BeginDate", JStr("01/01/2024")>> }

\* call paths of the session specification
SchemaInputs    == {"Erp", "Foo"}
NamespaceInputs == {"BO", "Baq", "BaqSvc"}
ServiceInputs   == {"VendorSvc"}
MethodInputs    == {"GetByVendID", "GetByID"}
KwargsInputs    == {KwVendor}

\* call paths of the method-invoker specification
WideSchemaInputs    == {"Erp", "ice"}
WideNamespaceInputs == {"BO", "Efx", "baq", "BaqSvc", "Xyz"}
WideServiceInputs   == {"VendorSvc"}
WideMethodInputs    == {"GetByID", "getlist", "GetRows", "GetBySysRowID",
                        "GetBySysRowIDs", "Data", "data", "GetNew"}
WideKwargsInputs    == { KwVendor, KwDs }

\* no response: the operation sent no request
NoResp == [status |-> 0, returnObj |-> None]

\* what is observed of an operation
Observed(op, args, kwargs, r, resp) ==
    [op     |-> op,
     args   |-> args,
     kwargs |-> kwargs,
     exc    |-> r.exc,
     reqs   |-> r.reqs,
     closes |-> r.closes,
     resp   |-> IF r.reqs = <<>> THEN NoResp ELSE resp]

---------------------------------------------------------------------------
(* The session specification *)

Init ==
    /\ erp \in { ERPInit(s, i, k, c, cl, Default) :
                   s \in ServerInputs, i \in InstanceInputs, k \in APIKeyInputs,
                   c \in CompanyInputs, cl \in BOOLEAN }
    /\ last = [op |-> "__init__", args |-> <<>>, kwargs |-> {}, exc |-> NoExc,
               reqs |-> <<>>, closes |-> 0, resp |-> NoResp]

LoginStep ==
    \E u \in UserInputs, p \in PasswordInputs, resp \in LoginResponses :
        LET r == Login(erp, u, p, resp) IN
        /\ erp' = r.erp
        /\ last' = Observed("Login", <<u, p>>, {}, r, resp)

LogoutStep ==
    \E resp \in LogoutResponses :
        LET r == Logout(erp, resp) IN
        /\ erp' = r.erp
        /\ last' = Observed("Logout", <<>>, {}, r, resp)

CloseStep ==
    \E resp \in LogoutResponses :
        LET r == Close(erp, resp) IN
        /\ erp' = r.erp
        /\ last' = Observed("Close", <<>>, {}, r, resp)

SetEpicorServerStep ==
    \E v \in NewServerInputs, resp \in LogoutResponses :
        LET r == SetEpicorServer(erp, v, resp) IN
        /\ erp' = r.erp
        /\ last' = Observed("EpicorServer", <<v>>, {}, r, resp)

SetERPInstanceStep ==
    \E v \in NewInstanceInputs, resp \in LogoutResponses :
        LET r == SetERPInstance(erp, v, resp) IN
        /\ erp' = r.erp
        /\ last' = Observed("ERPInstance", <<v>>, {}, r, resp)

SetLicenseTypeStep ==
    \E v \in NewLicenseInputs :
        LET r == SetLicenseType(erp, v) IN
        /\ erp' = r.erp
        /\ last' = Observed("LicenseType", <<v>>, {}, r, NoResp)

\* a method call leaves the session alone and returns the raw response
InvokeFrom(schemas, namespaces, services, methods, kwargss) ==
    \E sc \in schemas, ns \in namespaces, sv \in services, m \in methods,
       kw \in kwargss :
        LET c == Invoke(erp, sc, ns, sv, m, kw) IN
        /\ erp' = erp
        /\ last' = Observed("Invoke", <<sc, ns, sv, m>>, kw,
                            [exc |-> c.exc, reqs |-> c.reqs, closes |-> 0], NoResp)

InvokeStep ==
    InvokeFrom(SchemaInputs, NamespaceInputs, ServiceInputs, MethodInputs,
               KwargsInputs)

Next ==
    \/ LoginStep
    \/ LogoutStep
    \/ CloseStep
    \/ SetEpicorServerStep
    \/ SetERPInstanceStep
    \/ SetLicenseTypeStep
    \/ InvokeStep

Spec == Init /\ [][Next]_vars

---------------------------------------------------------------------------
(* The method-invoker specification: the call's inputs are a session, as   *)
(* constructed or as a successful Login leaves it, and a call path of the  *)
(* wide input sets                                                         *)

\* the session a successful Login(u, p) answered with token t leaves
LoggedIn(e, u, p, t) == Login(e, u, p, [status |-> 200, returnObj |-> t]).erp

InitCall ==
    /\ \E cl \in BOOLEAN :
         LET e == ERPInit("https://a.co", "E10Live", "key", "1", cl, Default) IN
         erp \in {e} \cup { LoggedIn(e, "u", "p", t) : t \in Tokens }
    /\ last = [op |-> "__init__", args |-> <<>>, kwargs |-> {}, exc |-> NoExc,
               reqs |-> <<>>, closes |-> 0, resp |-> NoResp]

InvokeWideStep ==
    InvokeFrom(WideSchemaInputs, WideNamespaceInputs, WideServiceInputs,
               WideMethodInputs, WideKwargsInputs)

NextCall ==
    \/ SetLicenseTypeStep
    \/ InvokeWideStep

SpecCall == InitCall /\ [][NextCall]_vars

---------------------------------------------------------------------------
(* Properties *)

\* the request, if any, the last operation sent
SentOne == Len(last.reqs) = 1
TheRequest == last.reqs[1]

\* the session-termination request of session e
IsLogoutRequestOf(rq, e) ==
    /\ rq.verb = "POST"
    /\ rq.url = e.EpicorServer \o "/" \o e.ERPInstance \o "/api/v2/odata/"
                \o e.CurrentCompany \o "/Ice.Lib.SessionModSvc/Logout"

\* C1: the open flag is a two-state machine: a new session is closed; IsOpen
\* becomes true only through a Login whose session-creation call succeeds; after
\* a successful Logout() or Close() on an open session IsOpen is false; nothing
\* else (but the Close() a setter makes) changes IsOpen.
C1_OpenFlagStateMachine ==
    /\ ~erp.is_open
    /\ [][ /\ (~erp.is_open /\ erp'.is_open) =>
                  /\ last'.op = "Login"
                  /\ Len(last'.reqs) = 1
                  /\ last'.resp.status = 200
           /\ (erp.is_open /\ last'.op \in {"Logout", "Close"}
                 /\ last'.exc = NoExc) => ~erp'.is_open
           /\ (erp.is_open /\ ~erp'.is_open) =>
                  (last'.op = "Logout" \/ last'.closes = 1)
         ]_vars

\* C2: the token is null on a new session; right after every Login whose
\* session-creation call succeeds the session is open and the token is the
\* non-null value the server returned; right after every successful Logout the
\* token is null.
C2_TokenLifecycle ==
    /\ last.op = "__init__" => erp.SessionID = None
    /\ (last.op = "Login" /\ SentOne /\ last.resp.status = 200) =>
           /\ erp.is_open
           /\ erp.SessionID # None
           /\ erp.SessionID = last.resp.returnObj
    /\ (last.op = "Logout" /\ SentOne /\ last.resp.status = 200) =>
           erp.SessionID = None

\* C2's case: a Login answered with a token
C2_Witness ==
    /\ last.op = "Login"
    /\ SentOne
    /\ last.resp.status = 200
    /\ erp.SessionID = "tok2"

\* whether username, password and company are all set on session e
HasCredentials(e) ==
    /\ e.username # None /\ e.username # ""
    /\ e.password # None /\ e.password # ""
    /\ e.CurrentCompany # None /\ e.CurrentCompany # ""

\* C3 as stated: Close() on a session that holds a token issues exactly one
\* session-termination request and, when that request succeeds, leaves the session
\* closed with a null token; Close() on a session holding no token issues no
\* request and leaves the session closed, so a second consecutive Close() never
\* sends a second logout.
C3_CloseAsStated ==
    [][ last'.op = "Close" =>
          /\ erp.SessionID # None =>
                /\ Len(last'.reqs) = 1
                /\ IsLogoutRequestOf(last'.reqs[1], erp)
                /\ last'.resp.status = 200 =>
                       (~erp'.is_open /\ erp'.SessionID = None)
          /\ erp.SessionID = None =>
                (last'.reqs = <<>> /\ ~erp'.is_open)
          /\ (last.op = "Close" /\ last.exc = NoExc) => last'.reqs = <<>>
      ]_vars

\* C3 as amended: Close() on a session that holds a token and has username,
\* password and company set issues exactly one session-termination request and,
\* when that request succeeds, leaves the session closed with a null token; with
\* a token but a credential missing it fails before sending anything and leaves
\* the session as it was; with no token it issues no request and leaves the
\* session closed; a Close() right after a completed Close() sends nothing.
C3_CloseAmended ==
    [][ last'.op = "Close" =>
          /\ (erp.SessionID # None /\ HasCredentials(erp)) =>
                /\ Len(last'.reqs) = 1
                /\ IsLogoutRequestOf(last'.reqs[1], erp)
                /\ last'.resp.status = 200 =>
                       (~erp'.is_open /\ erp'.SessionID = None)
          /\ (erp.SessionID # None /\ ~HasCredentials(erp)) =>
                (last'.reqs = <<>> /\ last'.exc.type = "Exception" /\ erp' = erp)
          /\ erp.SessionID = None =>
                (last'.reqs = <<>> /\ ~erp'.is_open)
          /\ (last.op = "Close" /\ last.exc = NoExc) => last'.reqs = <<>>
      ]_vars

\* C3's case: a Close() that logged out of a session holding a token
C3_Witness ==
    /\ last.op = "Close"
    /\ SentOne
    /\ last.resp.status = 200
    /\ ~erp.is_open
    /\ erp.SessionID = None

\* C4: assigning a new https server URL or a new instance name while the session
\* is open makes exactly one Close() before the new value is stored (the logout
\* it sends goes to the old address), and when the assignment completes the
\* session is closed and the new value is in effect; assigning while the session
\* is closed makes no Close() and sends no request.
C4_SetterClosesFirst ==
    [][ ( /\ last'.op \in {"EpicorServer", "ERPInstance"}
          /\ last'.op = "EpicorServer" =>
                startswith(lower(last'.args[1]), "https://") ) =>
          LET stored == IF last'.op = "EpicorServer" THEN erp'.EpicorServer
                        ELSE erp'.ERPInstance
          IN  IF erp.is_open
              THEN /\ last'.closes = 1
                   /\ \A i \in 1..Len(last'.reqs) :
                          IsLogoutRequestOf(last'.reqs[i], erp)
                   /\ Len(last'.reqs) <= 1
                   /\ last'.exc = NoExc =>
                          (~erp'.is_open /\ stored = last'.args[1])
              ELSE /\ last'.closes = 0
                   /\ last'.reqs = <<>>
                   /\ last'.exc = NoExc
                   /\ ~erp'.is_open
                   /\ stored = last'.args[1]
      ]_vars

\* C4's case: an instance name assigned on an open session holding a token
C4_Witness ==
    /\ last.op = "ERPInstance"
    /\ last.args = <<"E10Demo">>
    /\ last.closes = 1
    /\ SentOne
    /\ last.exc = NoExc
    /\ ~erp.is_open
    /\ erp.ERPInstance = "E10Demo"

\* C5: in every reachable state, the one right after construction included, the
\* stored server root starts with "https://" (case-insensitive), and an attempt to
\* set a server URL without that scheme fails with an error.
C5_ServerAlwaysSecure ==
    /\ startswith(lower(erp.EpicorServer), "https://")
    /\ ( /\ last.op = "EpicorServer"
         /\ ~startswith(lower(last.args[1]), "https://") ) =>
           last.exc.type = "ValueError"

\* the read-style method names and the query namespace's spellings, as documented
ReadStyleNames  == {"GetByID", "GetList", "GetRows", "GetBySysRowID", "GetBySysRowIDs"}
QueryNamespaces == {"Baq", "BaqSvc"}
KnownNamespaces == {"BO", "Lib", "Proc", "Rpt", "Efx"} \cup QueryNamespaces

\* equality of names up to letter case
SameName(a, b) == upper(a) = upper(b)

\* C6: the verb and the payload placement of every call that is sent depend only
\* on (namespace, method name, presence of ds): a read-style method name gives GET
\* with all keyword arguments as query parameters in every namespace; otherwise,
\* in the query namespace, method Data with ds present gives PATCH with body the
\* value of ds and anything else gives GET with query parameters; in all
\* remaining cases the verb is POST with all keyword arguments as the JSON body.
C6_VerbSelection ==
    (last.op = "Invoke" /\ SentOne) =>
        LET ns == last.args[2]
            m  == last.args[4]
            kw == last.kwargs
            rq == TheRequest
        IN  IF \E r \in ReadStyleNames : SameName(m, r)
            THEN rq.verb = "GET" /\ rq.params = JObj(kw) /\ rq.json = JNone
            ELSE IF \E q \in QueryNamespaces : SameName(ns, q)
            THEN IF SameName(m, "Data") /\ (\E pr \in kw : pr[1] = "ds")
                 THEN /\ rq.verb = "PATCH"
                      /\ rq.params = JNone
                      /\ \E pr \in kw : pr[1] = "ds" /\ rq.json = pr[2]
                 ELSE rq.verb = "GET" /\ rq.params = JObj(kw) /\ rq.json = JNone
            ELSE rq.verb = "POST" /\ rq.params = JNone /\ rq.json = JObj(kw)

\* C6's case: a read-style method outside the query namespace goes out as GET
C6_Witness ==
    /\ last.op = "Invoke"
    /\ last.args[2] = "BO"
    /\ last.args[4] = "GetBySysRowIDs"
    /\ SentOne
    /\ TheRequest.verb = "GET"
    /\ TheRequest.params = JObj(KwVendor)

\* the headers and the auth pair every sent request carries
CarriesKeyAndAuth(rq, e, u, p) ==
    /\ <<"x-api-key", e.APIKey>> \in rq.headers
    /\ rq.auth = <<u, p>>

\* C7 as stated: right after a successful Login(u, p), the call
\* Erp.BO.VendorSvc.GetByVendID(vendorID="DIGCO") produces a GET request to
\* {root}/{instance}/api/v2/odata/{company}/BO.VendorSvc/GetByVendID with the
\* keyword arguments as the query string, the x-api-key header and basic auth (u, p).
C7_ScenarioAsStated ==
    [][ ( /\ last.op = "Login" /\ last.exc = NoExc
          /\ last'.op = "Invoke"
          /\ last'.args = <<"Erp", "BO", "VendorSvc", "GetByVendID">> ) =>
          /\ Len(last'.reqs) = 1
          /\ last'.reqs[1].verb = "GET"
          /\ last'.reqs[1].url =
                 erp.EpicorServer \o "/" \o erp.ERPInstance \o "/api/v2/odata/"
                 \o erp.CurrentCompany \o "/BO.VendorSvc/GetByVendID"
          /\ last'.reqs[1].params = JObj(last'.kwargs)
          /\ CarriesKeyAndAuth(last'.reqs[1], erp, last.args[1], last.args[2])
      ]_vars

\* C7 as amended: right after a successful Login(u, p), a call
\* <Schema>.BO.<Service>.<Method>(**kwargs) produces one request to
\* {root}/{instance}/api/v2/odata/{company}/<Schema>.BO.<Service>/<Method>, with
\* the x-api-key header and basic auth (u, p); it is a POST with the keyword
\* arguments as the JSON body, and a GET with them as the query string only when
\* the method name is a read-style one.
C7_ScenarioAmended ==
    [][ ( /\ last.op = "Login" /\ last.exc = NoExc
          /\ last'.op = "Invoke"
          /\ last'.args[1] = "Erp"
          /\ last'.args[2] = "BO" ) =>
          /\ Len(last'.reqs) = 1
          /\ last'.reqs[1].url =
                 erp.EpicorServer \o "/" \o erp.ERPInstance \o "/api/v2/odata/"
                 \o erp.CurrentCompany \o "/Erp.BO." \o last'.args[3]
                 \o "/" \o last'.args[4]
          /\ IF \E r \in ReadStyleNames : SameName(last'.args[4], r)
             THEN /\ last'.reqs[1].verb = "GET"
                  /\ last'.reqs[1].params = JObj(last'.kwargs)
             ELSE /\ last'.reqs[1].verb = "POST"
                  /\ last'.reqs[1].json = JObj(last'.kwargs)
          /\ CarriesKeyAndAuth(last'.reqs[1], erp, last.args[1], last.args[2])
      ]_vars

\* C7's case: the scenario's call sent on a session that is logged in
C7_Witness ==
    /\ last.op = "Invoke"
    /\ last.args = <<"Erp", "BO", "VendorSvc", "GetByVendID">>
    /\ last.kwargs = KwVendor
    /\ SentOne
    /\ TheRequest.verb = "POST"
    /\ erp.is_open
    /\ erp.SessionID \in Tokens

\* C8: under either schema both spellings of the query namespace are accepted and
\* route to base URL + "/BaqSvc/" + service + "/" + method; a namespace outside the
\* accepted set fails with a validation error naming it, before any request.
C8_QueryNamespaceSpellings ==
    ( /\ last.op = "Invoke"
      /\ \E sc \in {"Erp", "Ice"} : SameName(last.args[1], sc) ) =>
        IF \E q \in QueryNamespaces : SameName(last.args[2], q)
        THEN /\ last.exc.type # "ValueError"
             /\ SentOne =>
                   TheRequest.url =
                       erp.EpicorServer \o "/" \o erp.ERPInstance
                       \o "/api/v2/odata/" \o erp.CurrentCompany \o "/BaqSvc/"
                       \o last.args[3] \o "/" \o last.args[4]
        ELSE (~ \E k \in KnownNamespaces : SameName(last.args[2], k)) =>
                 /\ last.exc = ValueError("Unknown Epicor namespace: " \o last.args[2])
                 /\ last.reqs = <<>>

\* C9: every method invocation, the ones inside Login and Logout (and so inside
\* Close and the setters) included, fails with a non-HTTP error when username,
\* password or company is missing: no request is sent and the open flag and the
\* token are left as they were.
C9_CredentialsChecked ==
    [][ LET e == IF last'.op = "Login"
                 THEN [erp EXCEPT !.username = last'.args[1],
                                  !.password = last'.args[2]]
                 ELSE erp
            calls ==
                \/ last'.op \in {"Login", "Logout"}
                \/ last'.op = "Invoke" /\ last'.exc.type # "ValueError"
                \/ last'.op = "Close" /\ erp.SessionID # None
                \/ /\ last'.op \in {"EpicorServer", "ERPInstance"}
                   /\ last'.exc.type # "ValueError"
                   /\ erp.is_open /\ erp.SessionID # None
        IN  (calls /\ ~HasCredentials(e)) =>
                /\ last'.exc.type = "Exception"
                /\ last'.reqs = <<>>
                /\ erp'.is_open = erp.is_open
                /\ erp'.SessionID = erp.SessionID
      ]_vars

\* C9's case: a Login with an empty username on a session that holds a token
C9_Witness ==
    /\ last.op = "Login"
    /\ last.args[1] = ""
    /\ last.exc.type = "Exception"
    /\ last.reqs = <<>>
    /\ erp.is_open
    /\ erp.SessionID \in Tokens

\* C10: when the session-termination request fails during Logout(), Close() or
\* the Close() a setter makes, the error propagates and the session is left as it
\* was (token, open flag, server URL and instance name); when the session-creation
\* request fails during Login(), the open flag and the token keep their values and
\* only the stored username and password are overwritten.
C10_FailureAtomicity ==
    [][ (Len(last'.reqs) = 1 /\ last'.resp.status >= 400) =>
          /\ last'.exc.type = "HTTPError"
          /\ IF last'.op = "Login"
             THEN erp' = [erp EXCEPT !.username = last'.args[1],
                                     !.password = last'.args[2]]
             ELSE erp' = erp
      ]_vars

\* C10's case: a server URL assigned on an open session whose logout fails
C10_Witness ==
    /\ last.op = "EpicorServer"
    /\ last.args = <<"HTTPS://b.co">>
    /\ last.exc.type = "HTTPError"
    /\ erp.is_open
    /\ erp.SessionID \in Tokens
    /\ erp.EpicorServer # "HTTPS://b.co"

===========================================================================
